---- MODULE Spec2Model ----
(***************************************************************************)
(* Model of backend/cmd/benchmark/fit_polynomial.py: the script that fits  *)
(* polynomials of several degrees to the sigmoid on a sample grid, prints  *)
(* an error analysis per degree and then a Go array literal per degree.    *)
(*                                                                         *)
(* The module-level configuration (a, b, n_points, degrees) is the input   *)
(* of the run and is drawn from bounded sets in Init.  Floating point      *)
(* numbers are modelled by exact rationals <<num, den>> in lowest terms;   *)
(* printing rounds them to the number of decimals of the format string.    *)
(*                                                                         *)
(* Further down: the result-file parsing and the dummy-data step of        *)
(* docs/benchmarks/visualize_benchmark.py, and the CKKS safety check of    *)
(* logistic/train_simplified_model.py, each with its own specification.    *)
(***************************************************************************)
EXTENDS Integers, Sequences, FiniteSets, TLC

(***************************************************************************)
(* Bounds of the model.                                                    *)
(***************************************************************************)
MaxDegree == 2
MaxPoints == 5
MaxDegrees == 2
MaxRepeatedPoints == 2   \* largest n_points on a domain with a = b (the grid repeats one point)

(***************************************************************************)
(* Rational arithmetic (the model of Python / numpy float arithmetic).     *)
(***************************************************************************)
Abs(i) == IF i < 0 THEN -i ELSE i

RECURSIVE Gcd(_, _)
Gcd(i, j) == IF j = 0 THEN i ELSE Gcd(j, i % j)

Norm(num, den) ==
    LET g == Gcd(Abs(num), Abs(den))
        s == IF den < 0 THEN -1 ELSE 1
    IN  <<s * (num \div g), s * (den \div g)>>

Rat(i) == <<i, 1>>
Zero == <<0, 1>>

RatAdd(p, q) ==
    LET g == Gcd(p[2], q[2])
    IN  Norm(p[1] * (q[2] \div g) + q[1] * (p[2] \div g), (p[2] \div g) * q[2])

RatNeg(p) == <<-p[1], p[2]>>
RatSub(p, q) == RatAdd(p, RatNeg(q))

RatMul(p, q) ==
    LET g1 == Gcd(Abs(p[1]), q[2])
        g2 == Gcd(Abs(q[1]), p[2])
    IN  IF p[1] = 0 \/ q[1] = 0 THEN Zero
        ELSE <<(p[1] \div g1) * (q[1] \div g2), (p[2] \div g2) * (q[2] \div g1)>>

RatDiv(p, q) == RatMul(p, IF q[1] < 0 THEN <<-q[2], -q[1]>> ELSE <<q[2], q[1]>>)
RatAbs(p) == <<Abs(p[1]), p[2]>>
RatLeq(p, q) == RatSub(p, q)[1] <= 0
RatLess(p, q) == RatSub(p, q)[1] < 0
RatMax(p, q) == IF RatLess(p, q) THEN q ELSE p

RECURSIVE RatPow(_, _)
RatPow(p, k) == IF k = 0 THEN Rat(1) ELSE RatMul(p, RatPow(p, k - 1))

RECURSIVE RatSum(_)
RatSum(s) == IF s = <<>> THEN Zero ELSE RatAdd(Head(s), RatSum(Tail(s)))

RECURSIVE RatMaxSeq(_)
RatMaxSeq(s) == IF Len(s) = 1 THEN s[1] ELSE RatMax(s[1], RatMaxSeq(Tail(s)))

(***************************************************************************)
(* sigmoid(x) = 1.0 / (1.0 + np.exp(-x)) at the points of [-3, -1] that    *)
(* are multiples of 1/2, which are the points the sample grids of the      *)
(* model and the test points fall on.  The table is keyed by 2x and holds  *)
(* the value in hundredths (0.0474, 0.0759, 0.1192, 0.1824, 0.2689 to two  *)
(* decimals), so that sums of squares stay within TLC's integers.          *)
(***************************************************************************)
SigmoidHundredths == [t \in -6 .. -2 |->
    CASE t = -6 -> 5 [] t = -5 -> 8 [] t = -4 -> 12 [] t = -3 -> 18 [] t = -2 -> 27]

OnLattice(x) == (x[2] = 1 \/ x[2] = 2) /\ RatMul(Rat(2), x)[1] \in DOMAIN SigmoidHundredths

sigmoid(x) == Norm(SigmoidHundredths[RatMul(Rat(2), x)[1]], 100)

(***************************************************************************)
(* The range behaviour of line 7 in IEEE-754 double precision, which is    *)
(* what np.exp and Python's float arithmetic compute in.  A value is kept  *)
(* by its kind: 0.0 ("zero"), e^t ("exp"), exactly 1.0 ("one"), 1 + e^t    *)
(* above 1.0 ("sum"), 1 / (1 + e^t) strictly between 0 and 1 ("inv") and   *)
(* +inf ("inf").  np.exp(t) overflows to inf above t = 709.78 and          *)
(* underflows to 0.0 below t = -745.13; e^t is below half the spacing of   *)
(* the doubles at 1.0 (2^-53) from t = -37 down, where 1.0 + e^t is 1.0.   *)
(***************************************************************************)
ExpOverflowAbove == 709
ExpUnderflowBelow == 745
OneAbsorbsBelow == 37

Finite(kind, t) == [kind |-> kind, t |-> t]

np_exp(t) ==
    IF t > ExpOverflowAbove THEN Finite("inf", 0)
    ELSE IF t < -ExpUnderflowBelow THEN Finite("zero", 0)
    ELSE Finite("exp", t)

ExpOverflows(t) == t > ExpOverflowAbove

OnePlus(v) ==
    CASE v.kind = "inf" -> v
      [] v.kind = "zero" -> Finite("one", 0)
      [] v.kind = "exp" -> IF v.t <= -OneAbsorbsBelow THEN Finite("one", 0) ELSE Finite("sum", v.t)

OneOver(v) ==
    CASE v.kind = "inf" -> Finite("zero", 0)
      [] v.kind = "one" -> v
      [] v.kind = "sum" -> Finite("inv", v.t)

sigmoid_f64(x) == OneOver(OnePlus(np_exp(-x)))

(***************************************************************************)
(* polynomial(x, *coeffs): result = 0; for i, c in enumerate(coeffs):      *)
(* result += c * x**i.  coeffs[k + 1] is the coefficient of x^k.           *)
(***************************************************************************)
RECURSIVE PolyFrom(_, _, _)
PolyFrom(x, coeffs, i) ==
    IF i > Len(coeffs) THEN Zero
    ELSE RatAdd(RatMul(coeffs[i], RatPow(x, i - 1)), PolyFrom(x, coeffs, i + 1))

RECURSIVE PolyFromDescending(_, _, _)
PolyFromDescending(x, coeffs, i) ==
    IF i > Len(coeffs) THEN Zero
    ELSE RatAdd(RatMul(coeffs[i], RatPow(x, Len(coeffs) - i)), PolyFromDescending(x, coeffs, i + 1))

polynomialDescending(x, coeffs) == PolyFromDescending(x, coeffs, 1)

polynomial(x, coeffs) == PolyFrom(x, coeffs, 1)

(***************************************************************************)
(* np.linspace(a, b, n): n evenly spaced points from a to b inclusive;     *)
(* [a] when n = 1 and the empty array when n = 0.                          *)
(***************************************************************************)
linspace(lo, hi, n) ==
    [i \in 1 .. n |->
        IF n = 1 THEN Rat(lo)
        ELSE RatAdd(Rat(lo), Norm((i - 1) * (hi - lo), n - 1))]

(***************************************************************************)
(* Solution of a square linear system of rationals by Gauss-Jordan         *)
(* elimination on the augmented matrix A (a sequence of rows, the last     *)
(* column the right-hand side).  The result is <<>> for a singular system. *)
(***************************************************************************)
ScaleRow(row, f) == [k \in 1 .. Len(row) |-> RatDiv(row[k], f)]
SubRow(row, piv, f) == [k \in 1 .. Len(row) |-> RatSub(row[k], RatMul(f, piv[k]))]

RECURSIVE Eliminate(_, _)
Eliminate(A, c) ==
    IF c > Len(A) THEN [i \in 1 .. Len(A) |-> A[i][Len(A) + 1]]
    ELSE LET rows == {r \in c .. Len(A) : A[r][c] # Zero}
         IN  IF rows = {} THEN <<>>
             ELSE LET p == CHOOSE r \in rows : \A q \in rows : r <= q
                      piv == ScaleRow(A[p], A[p][c])
                      B == [i \in 1 .. Len(A) |->
                               IF i = c THEN piv
                               ELSE LET row == IF i = p THEN A[c] ELSE A[i]
                                    IN  SubRow(row, piv, row[c])]
                  IN  Eliminate(B, c + 1)

Solve(M, v) == Eliminate([i \in 1 .. Len(M) |-> Append(M[i], v[i])], 1)

(***************************************************************************)
(* The sum of squared residuals curve_fit minimises:                       *)
(* sum_i (polynomial(x_i, *coeffs) - y_i)^2.                               *)
(***************************************************************************)
Residuals(xs, ys, coeffs) == [i \in 1 .. Len(xs) |-> RatSub(ys[i], polynomial(xs[i], coeffs))]
Squares(s) == [i \in 1 .. Len(s) |-> RatMul(s[i], s[i])]
SumSq(xs, ys, coeffs) == RatSum(Squares(Residuals(xs, ys, coeffs)))

(***************************************************************************)
(* The least-squares solution over the parameters K (an ascending sequence *)
(* of 0-based parameter indices), the other parameters held at 0.  The     *)
(* model function f is linear in its parameters, so its Jacobian column    *)
(* for parameter k is f evaluated on the k-th unit vector, and the         *)
(* minimiser solves the normal equations                                   *)
(*   sum_k c_k * sum_i J_j(x_i) * J_k(x_i) = sum_i y_i * J_j(x_i).         *)
(* The result is <<>> when the equations over K are singular.              *)
(***************************************************************************)
UnitVector(k, m) == [i \in 1 .. m |-> IF i = k + 1 THEN Rat(1) ELSE Zero]
Jacobian(xs, k, m) == [i \in 1 .. Len(xs) |-> polynomial(xs[i], UnitVector(k, m))]
Dot(u, v) == RatSum([i \in 1 .. Len(u) |-> RatMul(u[i], v[i])])

NormalMatrix(xs, K, m) ==
    [j \in 1 .. Len(K) |-> [k \in 1 .. Len(K) |-> Dot(Jacobian(xs, K[j], m), Jacobian(xs, K[k], m))]]
NormalRhs(xs, ys, K, m) ==
    [j \in 1 .. Len(K) |-> Dot(ys, Jacobian(xs, K[j], m))]

Position(K, p) == IF \E j \in 1 .. Len(K) : K[j] = p THEN CHOOSE j \in 1 .. Len(K) : K[j] = p ELSE 0

SolveOn(xs, ys, K, m) ==
    LET c == Solve(NormalMatrix(xs, K, m), NormalRhs(xs, ys, K, m))
    IN  IF c = <<>> THEN <<>>
        ELSE [p \in 1 .. m |-> IF Position(K, p - 1) = 0 THEN Zero ELSE c[Position(K, p - 1)]]

(***************************************************************************)
(* scipy.optimize.curve_fit(polynomial, x_data, y_data, p0=p0), method lm. *)
(* It raises ValueError on empty data and TypeError when there are more    *)
(* parameters than data points.  Otherwise it returns a minimiser of the   *)
(* sum of squared residuals with as many entries as p0.  The model is      *)
(* linear in its parameters, so from any start the minimiser is a solution *)
(* of the normal equations.  When the grid has fewer distinct points than  *)
(* parameters the minimiser is not unique: MINPACK returns a solution on   *)
(* as many columns as the rank, which columns being its pivoting's choice, *)
(* so every such solution is a possible outcome.                           *)
(***************************************************************************)
CurveFitRaises(xs, ys, p0) ==
    IF Len(ys) = 0 THEN "ValueError"
    ELSE IF Len(p0) > Len(ys) THEN "TypeError"
    ELSE "none"

Range(s) == {s[i] : i \in 1 .. Len(s)}
Min(i, j) == IF i < j THEN i ELSE j

RECURSIVE Ascending(_)
Ascending(S) ==
    IF S = {} THEN <<>>
    ELSE LET lo == CHOOSE e \in S : \A f \in S : e <= f
         IN  <<lo>> \o Ascending(S \ {lo})

CurveFitResults(xs, ys, p0) ==
    LET m == Len(p0)
        r == Min(m, Cardinality(Range(xs)))
        Ks == {S \in SUBSET (0 .. m - 1) : Cardinality(S) = r}
    IN  {SolveOn(xs, ys, Ascending(S), m) : S \in Ks} \ {<<>>}

(***************************************************************************)
(* Printing.  f"{v:.Nf}" rounds v to N decimals (ties to even); the model  *)
(* of the printed number is the integer count of 10^-N units, produced by  *)
(* long division one decimal at a time.                                    *)
(***************************************************************************)
RECURSIVE Digits(_, _, _, _)
Digits(ip, r, den, k) ==
    IF k = 0 THEN <<ip, r>>
    ELSE Digits(ip * 10 + (r * 10) \div den, (r * 10) % den, den, k - 1)

FormatFixed(q, decimals) ==
    LET st == Digits(Abs(q[1]) \div q[2], Abs(q[1]) % q[2], q[2], decimals)
        up == IF 2 * st[2] > q[2] \/ (2 * st[2] = q[2] /\ st[1] % 2 = 1) THEN 1 ELSE 0
    IN  (IF q[1] < 0 THEN -1 ELSE 1) * (st[1] + up)

(***************************************************************************)
(* np.sqrt on a non-negative rational, to four decimals (rounded down).    *)
(***************************************************************************)
RECURSIVE Bisect(_, _, _)
Bisect(lo, hi, F) ==
    IF lo = hi THEN lo
    ELSE LET mid == (lo + hi + 1) \div 2
         IN  IF mid * mid <= F THEN Bisect(mid, hi, F) ELSE Bisect(lo, mid - 1, F)

sqrt(q) == Norm(Bisect(0, 46340, Digits(q[1] \div q[2], q[1] % q[2], q[2], 8)[1]), 10000)

(***************************************************************************)
(* np.max, np.mean and the element-wise operations of lines 65-70.         *)
(***************************************************************************)
ArrayPolynomial(xs, coeffs) == [i \in 1 .. Len(xs) |-> polynomial(xs[i], coeffs)]
ArrayAbsDiff(ys, zs) == [i \in 1 .. Len(ys) |-> RatAbs(RatSub(ys[i], zs[i]))]
np_maxFirstOnly(s) == s[1]
np_max(s) == RatMaxSeq(s)
np_mean(s) == RatDiv(RatSum(s), Rat(Len(s)))

(***************************************************************************)
(* The configuration of lines 17-25 and the literals of the script.        *)
(***************************************************************************)
Domains == {<<-3, -1>>, <<-1, -3>>, <<-3, -3>>}
test_points == <<Rat(-3), <<-5, 2>>, Rat(-2), <<-3, 2>>, Rat(-1)>>
RangeRef == <<3, 20>>

RECURSIVE SeqsUpTo(_, _)
SeqsUpTo(S, k) ==
    IF k = 0 THEN {<<>>}
    ELSE LET shorter == SeqsUpTo(S, k - 1)
         IN  shorter \cup {Append(s, e) : s \in {t \in shorter : Len(t) = k - 1}, e \in S}

GridOnLattice(lo, hi, n) == \A i \in 1 .. n : OnLattice(linspace(lo, hi, n)[i])

(***************************************************************************)
(* A printed line: the section it belongs to, its label (the literal text  *)
(* of the format string), the degree being processed, the index printed    *)
(* on the line (-1 when there is none) and the numbers printed.            *)
(***************************************************************************)
Line(sec, label, degree, idx, vals) ==
    [sec |-> sec, label |-> label, degree |-> degree, idx |-> idx, vals |-> vals]

VARIABLES a, b, n_points, degrees, x_data, y_data, pc, di, popt, ti,
          max_error, total_error, out, exc, fit_calls, solved,
          arg, step, reg, overflow

script == <<a, b, n_points, degrees, x_data, y_data, pc, di, popt, ti,
            max_error, total_error, out, exc, fit_calls, solved>>
float == <<arg, step, reg, overflow>>

(***************************************************************************)
(* docs/benchmarks/visualize_benchmark.py: the three result files, the     *)
(* dictionaries parsed from them, the means taken for the figures and the  *)
(* position in the script.                                                 *)
(***************************************************************************)
VARIABLES baseline_file, optimized_file, sigmoid_file, baseline, optimized, sigmoid_results,
          avg_e2e, baseline_stages, optimized_stages, avg_network, vpc

viz == <<baseline_file, optimized_file, sigmoid_file, baseline, optimized, sigmoid_results,
         avg_e2e, baseline_stages, optimized_stages, avg_network, vpc>>

(***************************************************************************)
(* logistic/train_simplified_model.py, train_model from step 8 on: the     *)
(* fitted coefficients, the loop over them and the record that is saved.   *)
(***************************************************************************)
VARIABLES coef_, feature_names, fi, safe_count, statuses, coefficients, tpc

train == <<coef_, feature_names, fi, safe_count, statuses, coefficients, tpc>>

vars == <<script, float, viz, train>>

MissingFile == [exists |-> FALSE, lines |-> <<>>]

NoE2EResults ==
    [e2e_times |-> <<>>, encryption_times |-> <<>>, backend_times |-> <<>>,
     decryption_times |-> <<>>, network_sizes |-> <<>>, keygen_time |-> Zero,
     passed |-> 0, total |-> 0]

NoSigmoidResults ==
    [methods |-> <<>>, mean_errors |-> <<>>, max_errors |-> <<>>, std_devs |-> <<>>,
     times |-> <<>>, depths |-> <<>>, credit_errors |-> <<>>]

NoCoefficients == [weights |-> <<>>, feature_names |-> <<>>, num_features |-> 0, safe_count |-> 0]

VisualizerIdle ==
    /\ baseline_file = MissingFile
    /\ optimized_file = MissingFile
    /\ sigmoid_file = MissingFile
    /\ baseline = NoE2EResults
    /\ optimized = NoE2EResults
    /\ sigmoid_results = NoSigmoidResults
    /\ avg_e2e = <<>>
    /\ baseline_stages = <<>>
    /\ optimized_stages = <<>>
    /\ avg_network = <<>>
    /\ vpc = "off"

TrainIdle ==
    /\ coef_ = <<>>
    /\ feature_names = <<>>
    /\ fi = 0
    /\ safe_count = 0
    /\ statuses = <<>>
    /\ coefficients = NoCoefficients
    /\ tpc = "off"

config == <<a, b, n_points, degrees>>

degreeOfSortedList == SortSeq(degrees, LAMBDA p, q : p < q)[di]
degree == degrees[di]

FloatIdle ==
    /\ arg = 0
    /\ step = "idle"
    /\ reg = Finite("one", 0)
    /\ overflow = FALSE

Init ==
    /\ \E dom \in Domains : a = dom[1] /\ b = dom[2]
    /\ n_points \in 0 .. MaxPoints
    /\ a = b => n_points <= MaxRepeatedPoints
    /\ GridOnLattice(a, b, n_points)
    /\ degrees \in SeqsUpTo(0 .. MaxDegree, MaxDegrees)
    /\ x_data = <<>>
    /\ y_data = <<>>
    /\ pc = "sample"
    /\ di = 0
    /\ popt = <<>>
    /\ ti = 0
    /\ max_error = Zero
    /\ total_error = Zero
    /\ out = <<>>
    /\ exc = "none"
    /\ fit_calls = <<>>
    /\ solved = <<>>
    /\ FloatIdle
    /\ VisualizerIdle
    /\ TrainIdle

(* lines 21-22: x_data = np.linspace(a, b, n_points); y_data = sigmoid(x_data) *)
Sample ==
    /\ pc = "sample"
    /\ x_data' = linspace(a, b, n_points)
    /\ y_data' = [i \in 1 .. n_points |-> sigmoid(linspace(a, b, n_points)[i])]
    /\ pc' = "banner"
    /\ UNCHANGED <<float, viz, train, config, di, popt, ti, max_error, total_error, out, exc, fit_calls, solved>>

(* lines 27-28, and the entry of the loop of line 30 *)
BannerExportFirst ==
    /\ pc = "banner"
    /\ out' = out \o <<Line("analysis", "Polynomial Fit Coefficients for Sigmoid in [-3, -1]", -1, -1, <<>>),
                       Line("analysis", "=", -1, -1, <<>>)>>
    /\ di' = 1
    /\ pc' = "go_banner"
    /\ UNCHANGED <<float, viz, train, config, x_data, y_data, popt, ti, max_error, total_error, exc, fit_calls, solved>>

Banner ==
    /\ pc = "banner"
    /\ out' = out \o <<Line("analysis", "Polynomial Fit Coefficients for Sigmoid in [-3, -1]", -1, -1, <<>>),
                       Line("analysis", "=", -1, -1, <<>>)>>
    /\ di' = 1
    /\ pc' = IF degrees = <<>> THEN "go_banner" ELSE "fit"
    /\ UNCHANGED <<float, viz, train, config, x_data, y_data, popt, ti, max_error, total_error, exc, fit_calls, solved>>

(***************************************************************************)
(* p0 = np.zeros(degree + 1); popt, _ = curve_fit(polynomial, x_data,      *)
(* y_data, p0=p0).  curve_fit is a function of its arguments: a second     *)
(* call with the same degree returns what the first returned (solved).     *)
(***************************************************************************)
zerosOneShort(m) == [i \in 1 .. m - 1 |-> Zero]
zeros(m) == [i \in 1 .. m |-> Zero]

CallCurveFitSwapped ==
    /\ CurveFitRaises(x_data, y_data, zeros(degree + 1)) = "none"
    /\ fit_calls' = Append(fit_calls, degree)
    /\ IF \E i \in 1 .. Len(solved) : solved[i][1] = degree
       THEN /\ popt' = (CHOOSE e \in Range(solved) : e[1] = degree)[2]
            /\ UNCHANGED solved
       ELSE /\ popt' \in CurveFitResults(y_data, x_data, zeros(degree + 1))
            /\ solved' = Append(solved, <<degree, popt'>>)

CallCurveFit ==
    /\ CurveFitRaises(x_data, y_data, zeros(degree + 1)) = "none"
    /\ fit_calls' = Append(fit_calls, degree)
    /\ IF \E i \in 1 .. Len(solved) : solved[i][1] = degree
       THEN /\ popt' = (CHOOSE e \in Range(solved) : e[1] = degree)[2]
            /\ UNCHANGED solved
       ELSE /\ popt' \in CurveFitResults(x_data, y_data, zeros(degree + 1))
            /\ solved' = Append(solved, <<degree, popt'>>)

(* lines 32-33, the call returning *)
Fit ==
    /\ pc = "fit"
    /\ CallCurveFit
    /\ pc' = "coeffs"
    /\ UNCHANGED <<float, viz, train, config, x_data, y_data, di, ti, max_error, total_error, out, exc>>

(* lines 32-33, the call raising: nothing catches it and the script ends *)
FitRaises ==
    /\ pc = "fit"
    /\ CurveFitRaises(x_data, y_data, zeros(degree + 1)) # "none"
    /\ exc' = CurveFitRaises(x_data, y_data, zeros(degree + 1))
    /\ fit_calls' = Append(fit_calls, degree)
    /\ pc' = "raised"
    /\ UNCHANGED <<float, viz, train, config, x_data, y_data, di, popt, ti, max_error, total_error, out, solved>>

(* lines 35-39: the degree header and one line per coefficient *)
CoefficientLines(sec, label, d, coeffs) ==
    [i \in 1 .. Len(coeffs) |-> Line(sec, label, d, i - 1, <<FormatFixed(coeffs[i], 8)>>)]

PrintCoefficients ==
    /\ pc = "coeffs"
    /\ out' = out \o <<Line("analysis", "Degree", degree, -1, <<>>),
                       Line("analysis", "-", degree, -1, <<>>),
                       Line("analysis", "Coefficients:", degree, -1, <<>>)>>
                  \o CoefficientLines("analysis", "c[] =", degree, popt)
    /\ pc' = "test_init"
    /\ UNCHANGED <<float, viz, train, config, x_data, y_data, di, popt, ti, max_error, total_error, exc, fit_calls, solved>>

(* lines 42-46: the test points and the two accumulators *)
TestInitNoReset ==
    /\ pc = "test_init"
    /\ out' = Append(out, Line("analysis", "Test Points:", degree, -1, <<>>))
    /\ ti' = 1
    /\ pc' = "test"
    /\ UNCHANGED <<float, viz, train, config, x_data, y_data, di, popt, max_error, total_error, exc, fit_calls, solved>>

TestInit ==
    /\ pc = "test_init"
    /\ out' = Append(out, Line("analysis", "Test Points:", degree, -1, <<>>))
    /\ max_error' = Zero
    /\ total_error' = Zero
    /\ ti' = 1
    /\ pc' = "test"
    /\ UNCHANGED <<float, viz, train, config, x_data, y_data, di, popt, exc, fit_calls, solved>>

(* lines 48-58: one iteration of the loop over test_points *)
TestError(x, coeffs) == RatAbs(RatSub(sigmoid(x), polynomial(x, coeffs)))

TestPoint ==
    /\ pc = "test"
    /\ LET x == test_points[ti]
           expected == sigmoid(x)
           approx == polynomial(x, popt)
           error == TestError(x, popt)
           rel_error == RatMul(RatDiv(error, expected), Rat(100))
       IN  /\ out' = Append(out, Line("analysis", "x=", degree, ti - 1,
                        <<FormatFixed(x, 1), FormatFixed(expected, 6), FormatFixed(approx, 6),
                          FormatFixed(error, 6), FormatFixed(rel_error, 2)>>))
           /\ max_error' = RatMax(max_error, error)
           /\ total_error' = RatAdd(total_error, error)
    /\ ti' = ti + 1
    /\ pc' = IF ti = Len(test_points) THEN "summary" ELSE "test"
    /\ UNCHANGED <<float, viz, train, config, x_data, y_data, di, popt, exc, fit_calls, solved>>

(* lines 60-62: the summary of the test points *)
PercentOfRange(e) == RatMul(RatDiv(e, RangeRef), Rat(100))

Summary ==
    /\ pc = "summary"
    /\ LET avg_error == RatDiv(total_error, Rat(Len(test_points)))
       IN  out' = out \o
              <<Line("analysis", "Max Error", degree, -1,
                     <<FormatFixed(max_error, 6), FormatFixed(PercentOfRange(max_error), 2)>>),
                Line("analysis", "Avg Error", degree, -1,
                     <<FormatFixed(avg_error, 6), FormatFixed(PercentOfRange(avg_error), 2)>>)>>
    /\ pc' = "range"
    /\ UNCHANGED <<float, viz, train, config, x_data, y_data, di, popt, ti, max_error, total_error, exc, fit_calls, solved>>

(* lines 64-70: the statistics over the whole grid, and the loop of line 30 *)
RangeErrorsAtTestPoints(xs, ys, coeffs) ==
    [i \in 1 .. Len(test_points) |-> TestError(test_points[i], coeffs)]
RangeErrors(xs, ys, coeffs) == ArrayAbsDiff(ys, ArrayPolynomial(xs, coeffs))

RangeStatistics ==
    /\ pc = "range"
    /\ LET errors == RangeErrors(x_data, y_data, popt)
       IN  out' = out \o
              <<Line("analysis", "Range-wide statistics:", degree, -1, <<>>),
                Line("analysis", "Max error", degree, -1, <<FormatFixed(np_max(errors), 8)>>),
                Line("analysis", "Mean error", degree, -1, <<FormatFixed(np_mean(errors), 8)>>),
                Line("analysis", "RMS error", degree, -1,
                     <<FormatFixed(sqrt(np_mean(Squares(errors))), 8)>>)>>
    /\ di' = di + 1
    /\ pc' = IF di = Len(degrees) THEN "go_banner" ELSE "fit"
    /\ UNCHANGED <<float, viz, train, config, x_data, y_data, popt, ti, max_error, total_error, exc, fit_calls, solved>>

(* lines 73-75, and the entry of the loop of line 76 *)
GoBanner ==
    /\ pc = "go_banner"
    /\ out' = out \o <<Line("export", "=", -1, -1, <<>>),
                       Line("export", "GO CODE GENERATION:", -1, -1, <<>>),
                       Line("export", "=", -1, -1, <<>>)>>
    /\ di' = 1
    /\ pc' = IF degrees = <<>> THEN "done" ELSE "go_fit"
    /\ UNCHANGED <<float, viz, train, config, x_data, y_data, popt, ti, max_error, total_error, exc, fit_calls, solved>>

(* lines 77-78: the second fit of the degree.  The loop of line 30 has     *)
(* fitted every degree of the list with the same arguments without         *)
(* raising, so this call does not raise either.                            *)
GoFitReusesLast ==
    /\ pc = "go_fit"
    /\ pc' = "go_print"
    /\ UNCHANGED <<float, viz, train, config, x_data, y_data, di, popt, ti, max_error, total_error, out, exc, fit_calls, solved>>

GoFit ==
    /\ pc = "go_fit"
    /\ CallCurveFit
    /\ pc' = "go_print"
    /\ UNCHANGED <<float, viz, train, config, x_data, y_data, di, ti, max_error, total_error, out, exc>>

(* lines 80-85: the case header, the array literal and the loop of line 76 *)
GoPrint ==
    /\ pc = "go_print"
    /\ out' = out \o <<Line("export", "case", degree, -1, <<>>),
                       Line("export", "// degree polynomial fit", degree, -1, <<>>),
                       Line("export", "coeffs = []float64{", degree, -1, <<>>)>>
                  \o CoefficientLines("export", "// c: x^ term", degree, popt)
                  \o <<Line("export", "}", degree, -1, <<>>)>>
    /\ di' = di + 1
    /\ pc' = IF di = Len(degrees) THEN "done" ELSE "go_fit"
    /\ UNCHANGED <<float, viz, train, config, x_data, y_data, popt, ti, max_error, total_error, exc, fit_calls, solved>>

Next ==
    \/ Sample
    \/ Banner
    \/ Fit
    \/ FitRaises
    \/ PrintCoefficients
    \/ TestInit
    \/ TestPoint
    \/ Summary
    \/ RangeStatistics
    \/ GoBanner
    \/ GoFit
    \/ GoPrint

Spec == Init /\ [][Next]_vars

(***************************************************************************)
(* sigmoid(x) of lines 6-7 evaluated on its own, one operation at a time,  *)
(* for arguments of any magnitude: -x, np.exp, 1.0 + and 1.0 /.            *)
(***************************************************************************)
SigmoidArgMax == 800

ScriptIdle ==
    /\ a = -3
    /\ b = -1
    /\ n_points = 0
    /\ degrees = <<>>
    /\ x_data = <<>>
    /\ y_data = <<>>
    /\ pc = "off"
    /\ di = 0
    /\ popt = <<>>
    /\ ti = 0
    /\ max_error = Zero
    /\ total_error = Zero
    /\ out = <<>>
    /\ exc = "none"
    /\ fit_calls = <<>>
    /\ solved = <<>>

SigmoidInit ==
    /\ ScriptIdle
    /\ VisualizerIdle
    /\ TrainIdle
    /\ arg \in -SigmoidArgMax .. SigmoidArgMax
    /\ step = "exp"
    /\ reg = Finite("one", 0)
    /\ overflow = FALSE

SigmoidExp ==
    /\ step = "exp"
    /\ reg' = np_exp(-arg)
    /\ overflow' = ExpOverflows(-arg)
    /\ step' = "add"
    /\ UNCHANGED <<script, viz, train, arg>>

SigmoidAdd ==
    /\ step = "add"
    /\ reg' = OnePlus(reg)
    /\ step' = "div"
    /\ UNCHANGED <<script, viz, train, arg, overflow>>

SigmoidDiv ==
    /\ step = "div"
    /\ reg' = OneOver(reg)
    /\ step' = "returned"
    /\ UNCHANGED <<script, viz, train, arg, overflow>>

SigmoidNext ==
    \/ SigmoidExp
    \/ SigmoidAdd
    \/ SigmoidDiv

SigmoidSpec == SigmoidInit /\ [][SigmoidNext]_vars

(***************************************************************************)
(* visualize_benchmark.py.  A result file is missing or is a sequence of   *)
(* log lines.  A log line is the text one of the regular expressions of    *)
(* parse_e2e_results looks for (kind), with the numerals it captures       *)
(* (nums, each a sequence of decimal digits), or some other text.          *)
(***************************************************************************)
MaxLogLines == 1

LogLine(kind, nums) == [kind |-> kind, name |-> <<>>, nums |-> nums]

E2ELines ==
    { LogLine("Total E2E Time: ms", <<<<2, 0, 4, 8>>>>),
      LogLine("Encryption completed in ms", <<<<2, 0, 0>>>>),
      LogLine("Backend inference completed in ms", <<<<1, 5, 0, 0>>>>),
      LogLine("Decryption completed in ms", <<<<9, 0>>>>),
      LogLine("Total Network:  KB", <<<<5, 1, 2>>>>),
      LogLine("Keys generated in ms", <<<<4, 0, 0, 0>>>>),
      LogLine("Test Summary: / passed", <<<<3>>, <<4>>>>),
      LogLine("other", <<>>) }

File(lines) == [exists |-> TRUE, lines |-> lines]
E2EFiles == {MissingFile} \cup {File(l) : l \in SeqsUpTo(E2ELines, MaxLogLines)}

(* int(text) of a run of decimal digits; float(text) is the same number *)
RECURSIVE int(_)
int(digits) ==
    IF digits = <<>> THEN 0 ELSE 10 * int(SubSeq(digits, 1, Len(digits) - 1)) + digits[Len(digits)]

(* re.findall(pattern, content): the captured numeral of every match, in order *)
findall(kind, content) ==
    LET matches == SelectSeq(content, LAMBDA l : l.kind = kind)
    IN  [i \in 1 .. Len(matches) |-> matches[i].nums[1]]

(* re.search(pattern, content): the first match, or none *)
search(kind, content) == SelectSeq(content, LAMBDA l : l.kind = kind)

(* lines 36-78 *)
parse_e2e_results(file) ==
    IF ~file.exists THEN NoE2EResults
    ELSE LET content == file.lines
             floats(kind) == [i \in 1 .. Len(findall(kind, content)) |-> Rat(int(findall(kind, content)[i]))]
             network_kb == findall("Total Network:  KB", content)
             keygen_match == search("Keys generated in ms", content)
             passed_match == search("Test Summary: / passed", content)
         IN  [e2e_times |-> floats("Total E2E Time: ms"),
              encryption_times |-> floats("Encryption completed in ms"),
              backend_times |-> floats("Backend inference completed in ms"),
              decryption_times |-> floats("Decryption completed in ms"),
              network_sizes |-> [i \in 1 .. Len(network_kb) |-> RatDiv(Rat(int(network_kb[i])), Rat(1024))],
              keygen_time |-> IF keygen_match # <<>> THEN Rat(int(keygen_match[1].nums[1])) ELSE Zero,
              passed |-> IF passed_match # <<>> THEN int(passed_match[1].nums[1]) ELSE 0,
              total |-> IF passed_match # <<>> THEN int(passed_match[1].nums[2]) ELSE 0]

(* np.mean of a list: nan (with a RuntimeWarning) when the list is empty *)
Mean(s) == IF s = <<>> THEN [nan |-> TRUE, value |-> Zero] ELSE [nan |-> FALSE, value |-> np_mean(s)]

(* lines 145-152 and 154-161 *)
DummyData(results, e2e, encryption, backend, decryption, network, keygen) ==
    IF results.e2e_times = <<>>
    THEN [results EXCEPT !.e2e_times = <<Rat(e2e)>>,
                         !.encryption_times = <<Rat(encryption)>>,
                         !.backend_times = <<Rat(backend)>>,
                         !.decryption_times = <<Rat(decryption)>>,
                         !.network_sizes = <<Rat(network)>>,
                         !.keygen_time = Rat(keygen)]
    ELSE results

(***************************************************************************)
(* The sigmoid benchmark file.  A line is a row of the result table        *)
(* (method | mean | max | std | time | depth), the heading of the credit   *)
(* scoring section, a row of that section (method : error), or the blank   *)
(* line (or "Small Values" heading) that ends the section.  Errors are     *)
(* written in thousandths.                                                 *)
(***************************************************************************)
MaxSigmoidLines == 4

SigmoidLine(kind, name, nums) == [kind |-> kind, name |-> name, nums |-> nums]

Taylor == <<"T", "a", "y", "l", "o", "r">>
ChebTaylor == <<"C", "h", "e", "b", "-", "T", "a", "y", "l", "o", "r">>

SigmoidLines ==
    { SigmoidLine("row", Taylor, <<<<1>>, <<3>>, <<1>>, <<7>>, <<2>>>>),
      SigmoidLine("row", Taylor, <<<<2>>, <<4>>, <<1>>, <<8>>, <<3>>>>),
      SigmoidLine("row", ChebTaylor, <<<<1>>, <<3>>, <<1>>, <<9>>, <<4>>>>),
      SigmoidLine("credit", Taylor, <<<<5>>>>),
      SigmoidLine("credit", ChebTaylor, <<<<6>>>>),
      SigmoidLine("Credit Scoring [-3.0, 0.0] - Typical range:", <<>>, <<>>),
      SigmoidLine("end", <<>>, <<>>) }

SigmoidFiles == {MissingFile} \cup {File(l) : l \in SeqsUpTo(SigmoidLines, MaxSigmoidLines)}

(* float(text) of an error written in thousandths *)
float_e3(digits) == Norm(int(digits), 1000)

(* list.index(x): the first position of x *)
Least(S) == CHOOSE m \in S : \A q \in S : m <= q
index(list, x) == Least({i \in 1 .. Len(list) : list[i] = x})

(* the pattern method\s+:\s+(number) is not anchored on the left: it       *)
(* matches a row whose method name ends with the method searched           *)
EndsWith(name, method) ==
    /\ Len(method) <= Len(name)
    /\ SubSeq(name, Len(name) - Len(method) + 1, Len(name)) = method

(* line 113: the first heading that has an end after it, up to that end *)
credit_section(content) ==
    LET ends(h) == {t \in h + 1 .. Len(content) : content[t].kind = "end"}
        headings == {h \in 1 .. Len(content) :
                        /\ content[h].kind = "Credit Scoring [-3.0, 0.0] - Typical range:"
                        /\ ends(h) # {}}
    IN  IF headings = {} THEN <<>>
        ELSE <<SubSeq(content, Least(headings) + 1, Least(ends(Least(headings))) - 1)>>

(* lines 83-134 *)
parse_sigmoid_results(file) ==
    IF ~file.exists THEN NoSigmoidResults
    ELSE LET content == file.lines
             matches == SelectSeq(content, LAMBDA l : l.kind = "row")
             methods == [i \in 1 .. Len(matches) |-> matches[i].name]
             mean_errors == [i \in 1 .. Len(matches) |-> float_e3(matches[i].nums[1])]
             section == credit_section(content)
             found(method) ==
                 SelectSeq(section[1], LAMBDA l : l.kind = "credit" /\ EndsWith(l.name, method))
         IN  [methods |-> methods,
              mean_errors |-> mean_errors,
              max_errors |-> [i \in 1 .. Len(matches) |-> float_e3(matches[i].nums[2])],
              std_devs |-> [i \in 1 .. Len(matches) |-> float_e3(matches[i].nums[3])],
              times |-> [i \in 1 .. Len(matches) |-> Rat(int(matches[i].nums[4]))],
              depths |-> [i \in 1 .. Len(matches) |-> int(matches[i].nums[5])],
              credit_errors |->
                  IF section # <<>>
                  THEN [i \in 1 .. Len(methods) |->
                           IF found(methods[i]) # <<>>
                           THEN float_e3(found(methods[i])[1].nums[1])
                           ELSE mean_errors[index(methods, methods[i])]]
                  ELSE mean_errors]

(***************************************************************************)
(* The visualizer script, lines 139-251: load the three files, put the     *)
(* dummy data where no end-to-end time was parsed, take the means.         *)
(***************************************************************************)
TypicalSigmoidFile ==
    File(<<SigmoidLine("row", Taylor, <<<<1>>, <<3>>, <<1>>, <<7>>, <<2>>>>),
           SigmoidLine("Credit Scoring [-3.0, 0.0] - Typical range:", <<>>, <<>>),
           SigmoidLine("credit", Taylor, <<<<5>>>>),
           SigmoidLine("end", <<>>, <<>>)>>)

OthersIdle ==
    /\ ScriptIdle
    /\ FloatIdle
    /\ TrainIdle

VisualizerInit ==
    /\ OthersIdle
    /\ baseline_file \in E2EFiles
    /\ optimized_file \in E2EFiles
    /\ sigmoid_file \in {MissingFile, TypicalSigmoidFile}
    /\ baseline = NoE2EResults
    /\ optimized = NoE2EResults
    /\ sigmoid_results = NoSigmoidResults
    /\ avg_e2e = <<>>
    /\ baseline_stages = <<>>
    /\ optimized_stages = <<>>
    /\ avg_network = <<>>
    /\ vpc = "load_baseline"

files == <<baseline_file, optimized_file, sigmoid_file>>
figures == <<avg_e2e, baseline_stages, optimized_stages, avg_network>>

(* line 139 *)
LoadBaseline ==
    /\ vpc = "load_baseline"
    /\ baseline' = parse_e2e_results(baseline_file)
    /\ vpc' = "load_optimized"
    /\ UNCHANGED <<script, float, train, files, figures, optimized, sigmoid_results>>

(* line 140 *)
LoadOptimized ==
    /\ vpc = "load_optimized"
    /\ optimized' = parse_e2e_results(optimized_file)
    /\ vpc' = "load_sigmoid"
    /\ UNCHANGED <<script, float, train, files, figures, baseline, sigmoid_results>>

(* line 141 *)
LoadSigmoid ==
    /\ vpc = "load_sigmoid"
    /\ sigmoid_results' = parse_sigmoid_results(sigmoid_file)
    /\ vpc' = "dummy_baseline"
    /\ UNCHANGED <<script, float, train, files, figures, baseline, optimized>>

(* lines 145-152 *)
DummyBaseline ==
    /\ vpc = "dummy_baseline"
    /\ baseline' = DummyData(baseline, 2500, 200, 2200, 100, 50, 5000)
    /\ vpc' = "dummy_optimized"
    /\ UNCHANGED <<script, float, train, files, figures, optimized, sigmoid_results>>

(* lines 154-161 *)
DummyOptimized ==
    /\ vpc = "dummy_optimized"
    /\ optimized' = DummyData(optimized, 1200, 100, 1000, 100, 25, 2500)
    /\ vpc' = "e2e"
    /\ UNCHANGED <<script, float, train, files, figures, baseline, sigmoid_results>>

(* lines 163-166 and 182 *)
E2EMeans ==
    /\ vpc = "e2e"
    /\ avg_e2e' = <<Mean(baseline.e2e_times), Mean(optimized.e2e_times)>>
    /\ vpc' = "stages"
    /\ UNCHANGED <<script, float, train, files, baseline, optimized, sigmoid_results,
                   baseline_stages, optimized_stages, avg_network>>

(* lines 222-227 *)
StageBreakdown ==
    /\ vpc = "stages"
    /\ baseline_stages' = <<Mean(baseline.encryption_times), Mean(baseline.backend_times),
                            Mean(baseline.decryption_times)>>
    /\ optimized_stages' = <<Mean(optimized.encryption_times), Mean(optimized.backend_times),
                             Mean(optimized.decryption_times)>>
    /\ vpc' = "network"
    /\ UNCHANGED <<script, float, train, files, baseline, optimized, sigmoid_results, avg_e2e, avg_network>>

(* line 251 *)
NetworkTraffic ==
    /\ vpc = "network"
    /\ avg_network' = <<Mean(baseline.network_sizes), Mean(optimized.network_sizes)>>
    /\ vpc' = "done"
    /\ UNCHANGED <<script, float, train, files, baseline, optimized, sigmoid_results,
                   avg_e2e, baseline_stages, optimized_stages>>

VisualizerNext ==
    \/ LoadBaseline
    \/ LoadOptimized
    \/ LoadSigmoid
    \/ DummyBaseline
    \/ DummyOptimized
    \/ E2EMeans
    \/ StageBreakdown
    \/ NetworkTraffic

VisualizerSpec == VisualizerInit /\ [][VisualizerNext]_vars

(***************************************************************************)
(* parse_sigmoid_results as a function of the file it is given.            *)
(***************************************************************************)
SigmoidResultsInit ==
    /\ OthersIdle
    /\ baseline_file = MissingFile
    /\ optimized_file = MissingFile
    /\ sigmoid_file \in SigmoidFiles
    /\ baseline = NoE2EResults
    /\ optimized = NoE2EResults
    /\ sigmoid_results = NoSigmoidResults
    /\ avg_e2e = <<>>
    /\ baseline_stages = <<>>
    /\ optimized_stages = <<>>
    /\ avg_network = <<>>
    /\ vpc = "call"

ParseSigmoidResults ==
    /\ vpc = "call"
    /\ sigmoid_results' = parse_sigmoid_results(sigmoid_file)
    /\ vpc' = "returned"
    /\ UNCHANGED <<script, float, train, files, figures, baseline, optimized>>

SigmoidResultsSpec == SigmoidResultsInit /\ [][ParseSigmoidResults]_vars

(***************************************************************************)
(* train_simplified_model.py, train_model, lines 109-139: the CKKS safety  *)
(* check of the fitted coefficients and the record that is saved.  The     *)
(* coefficients are finite floats (the fit has returned); they are drawn   *)
(* in ten-thousandths, on and around the three thresholds.                 *)
(***************************************************************************)
MaxFeatures == 2

Coefs == {Norm(c, 10000) : c \in {-10001, -10000, -100, -99, -10, -9, 0, 9, 10, 99, 100, 5000, 10000, 10001}}

NonEmptySeqsUpTo(S, k) == SeqsUpTo(S, k) \ {<<>>}

TrainInit ==
    /\ ScriptIdle
    /\ FloatIdle
    /\ VisualizerIdle
    /\ coef_ \in NonEmptySeqsUpTo(Coefs, MaxFeatures)
    /\ feature_names = [i \in 1 .. Len(coef_) |-> i]
    /\ fi = 1
    /\ safe_count = 0
    /\ statuses = <<>>
    /\ coefficients = NoCoefficients
    /\ tpc = "check"

(* lines 119-127 *)
statusStrictLower(magnitude) ==
    IF RatLess(<<1, 100>>, magnitude) /\ RatLeq(magnitude, <<1, 1>>) THEN "SAFE"
    ELSE IF RatLeq(<<1, 1000>>, magnitude) /\ RatLess(magnitude, <<1, 100>>) THEN "OK"
    ELSE IF RatLess(magnitude, <<1, 1000>>) THEN "TOO SMALL"
    ELSE "TOO LARGE"

status(magnitude) ==
    IF RatLeq(<<1, 100>>, magnitude) /\ RatLeq(magnitude, <<1, 1>>) THEN "SAFE"
    ELSE IF RatLeq(<<1, 1000>>, magnitude) /\ RatLess(magnitude, <<1, 100>>) THEN "OK"
    ELSE IF RatLess(magnitude, <<1, 1000>>) THEN "TOO SMALL"
    ELSE "TOO LARGE"

(* lines 116-129: one iteration of the loop over zip(feature_names, model.coef_[0]) *)
CheckCoefficient ==
    /\ tpc = "check"
    /\ LET coef == coef_[fi]
           magnitude == RatAbs(coef)
       IN  /\ statuses' = Append(statuses, status(magnitude))
           /\ safe_count' = IF status(magnitude) = "SAFE" THEN safe_count + 1 ELSE safe_count
    /\ fi' = fi + 1
    /\ tpc' = IF fi = Min(Len(feature_names), Len(coef_)) THEN "save" ELSE "check"
    /\ UNCHANGED <<script, float, viz, coef_, feature_names, coefficients>>

(* lines 131-139: the coefficients record *)
SaveCoefficients ==
    /\ tpc = "save"
    /\ coefficients' = [weights |-> coef_, feature_names |-> feature_names,
                        num_features |-> Len(feature_names), safe_count |-> safe_count]
    /\ tpc' = "saved"
    /\ UNCHANGED <<script, float, viz, coef_, feature_names, fi, safe_count, statuses>>

TrainNext ==
    \/ CheckCoefficient
    \/ SaveCoefficients

TrainSpec == TrainInit /\ [][TrainNext]_vars

(***************************************************************************)
(* What the printed output and the state say about a requested degree.     *)
(***************************************************************************)
Printed(sec, label, d) ==
    \E i \in 1 .. Len(out) : out[i].sec = sec /\ out[i].label = label /\ out[i].degree = d

FitFails(d) == CurveFitRaises(linspace(a, b, n_points), zeros(n_points), zeros(d + 1)) # "none"

Ended == pc \in {"done", "raised"}

InvalidConfig == a >= b \/ n_points < 2 \/ degrees = <<>>

(***************************************************************************)
(* C1: when the fit of one degree of the batch fails, the failure concerns *)
(* that degree only: once a run on a valid configuration has ended, every  *)
(* requested degree whose own fit does not fail has been analysed (its     *)
(* degree header and its range-wide statistics are in the report) and      *)
(* exported.                                                               *)
(***************************************************************************)
C1_FailureIsolated ==
    (Ended /\ ~InvalidConfig) =>
        \A i \in 1 .. Len(degrees) :
            ~FitFails(degrees[i]) =>
                /\ Printed("analysis", "Degree", degrees[i])
                /\ Printed("analysis", "RMS error", degrees[i])
                /\ Printed("export", "case", degrees[i])

(***************************************************************************)
(* C2: a configuration with lower >= upper, fewer than two sample points   *)
(* or no degree is refused with DomainViolation before anything is         *)
(* computed: past the configuration the run is in that error, and no       *)
(* sample, no fit and no output line exists.                               *)
(***************************************************************************)
C2_DomainViolation ==
    (InvalidConfig /\ pc # "sample") =>
        /\ exc = "DomainViolation"
        /\ x_data = <<>>
        /\ fit_calls = <<>>
        /\ out = <<>>

(***************************************************************************)
(* C10: for every argument x, sigmoid(x) is computed without any           *)
(* intermediate overflow and the value returned lies strictly between 0    *)
(* and 1.                                                                  *)
(***************************************************************************)
C10_StableSigmoid ==
    /\ ~overflow
    /\ step = "returned" => reg.kind = "inv"

(***************************************************************************)
(* C3: for every requested degree d whose fit is accepted, the fitted      *)
(* coefficient sequence has exactly d + 1 entries: popt has d + 1 entries  *)
(* while d is being processed, and when the run has ended every header of  *)
(* degree d, in the report as in the export, comes with exactly one        *)
(* coefficient line for each of the indices 0 .. d and with none beyond.   *)
(***************************************************************************)
Count(sec, label, d, idx) ==
    Cardinality({i \in 1 .. Len(out) :
        out[i].sec = sec /\ out[i].label = label /\ out[i].degree = d /\ out[i].idx = idx})

HoldsFit == pc \in {"coeffs", "test_init", "test", "summary", "range", "go_print"}

EntriesMatchHeaders(sec, header, entry) ==
    /\ \A d \in 0 .. MaxDegree : \A k \in 0 .. d :
           Count(sec, entry, d, k) = Count(sec, header, d, -1)
    /\ \A i \in 1 .. Len(out) :
           (out[i].sec = sec /\ out[i].label = entry) =>
               /\ out[i].idx \in 0 .. out[i].degree
               /\ Len(out[i].vals) = 1

C3_CoefficientCount ==
    /\ HoldsFit => Len(popt) = degree + 1
    /\ Ended => EntriesMatchHeaders("analysis", "Degree", "c[] =")
    /\ Ended => EntriesMatchHeaders("export", "case", "// c: x^ term")

C3_Witness ==
    /\ pc = "done"
    /\ ~InvalidConfig
    /\ Count("analysis", "c[] =", 2, 2) = 1
    /\ Count("export", "// c: x^ term", 2, 2) = 1
    /\ Count("export", "// c: x^ term", 0, 0) = 1

(***************************************************************************)
(* C4 as claimed: for every fitted degree the maximum error over the       *)
(* sample grid is at least the error at every canonical test point, on the *)
(* grid or not.  Both are known once the test points have been processed   *)
(* and the range-wide statistics are about to be printed.  Stated for the  *)
(* valid configurations (lower < upper, n >= 2).                           *)
(***************************************************************************)
GridMaxError == np_max(RangeErrors(x_data, y_data, popt))

C4_GridDominatesEveryTestPoint ==
    (pc = "range" /\ ~InvalidConfig) =>
        \A i \in 1 .. Len(test_points) :
            RatLeq(TestError(test_points[i], popt), GridMaxError)

(***************************************************************************)
(* C4 as amended: for every fitted degree the maximum error over the       *)
(* sample grid is at least the error at every canonical test point that is *)
(* itself a point of the grid.                                             *)
(***************************************************************************)
C4_GridDominatesGridTestPoints ==
    pc = "range" =>
        \A i \in 1 .. Len(test_points) :
            test_points[i] \in Range(x_data) =>
                RatLeq(TestError(test_points[i], popt), GridMaxError)

C4_Witness ==
    /\ pc = "range"
    /\ \E i \in 1 .. Len(test_points) :
           /\ test_points[i] \in Range(x_data)
           /\ TestError(test_points[i], popt) = GridMaxError
           /\ GridMaxError # Zero
    /\ \E j \in 1 .. Len(test_points) : test_points[j] \notin Range(x_data)

(***************************************************************************)
(* The coefficients fitted for degree d, and the errors of that fit over   *)
(* the sample grid and over the canonical test points.                     *)
(***************************************************************************)
FittedFor(d) == (CHOOSE e \in Range(solved) : e[1] = d)[2]

GridError(d, j) == RatAbs(RatSub(y_data[j], polynomial(x_data[j], FittedFor(d))))
GridErrors(d) == [j \in 1 .. Len(x_data) |-> GridError(d, j)]
PointError(d, i) == RatAbs(RatSub(sigmoid(test_points[i]), polynomial(test_points[i], FittedFor(d))))
PointErrors(d) == [i \in 1 .. Len(test_points) |-> PointError(d, i)]

MaxOf(errs) ==
    LET values == Range(errs)
    IN  CHOOSE m \in values : \A q \in values : RatLeq(q, m)
MeanOf(errs) == RatDiv(RatSum(errs), Rat(Len(errs)))
RmsOf(errs) == sqrt(MeanOf([j \in 1 .. Len(errs) |-> RatMul(errs[j], errs[j])]))

Labelled(label) == {i \in 1 .. Len(out) : out[i].label = label}

(***************************************************************************)
(* C6 as claimed: when a run on a valid configuration has ended, the       *)
(* report has for every fitted degree summary lines labelled exactly       *)
(* "Max Error", "Mean Error" and "RMS Error", and their values are the     *)
(* maximum, the mean and the root mean square of the error over the whole  *)
(* sample grid (printed with 6 or with 8 decimals).                        *)
(***************************************************************************)
HasLine(label, d, v) ==
    \E i \in Labelled(label) :
        /\ out[i].degree = d
        /\ out[i].vals # <<>>
        /\ out[i].vals[1] \in {FormatFixed(v, 6), FormatFixed(v, 8)}

C6_SummaryOverSampleSet ==
    \A i \in Labelled("Range-wide statistics:") :
        (Ended /\ ~InvalidConfig) =>
            /\ HasLine("Max Error", out[i].degree, MaxOf(GridErrors(out[i].degree)))
            /\ HasLine("Mean Error", out[i].degree, MeanOf(GridErrors(out[i].degree)))
            /\ HasLine("RMS Error", out[i].degree, RmsOf(GridErrors(out[i].degree)))

(***************************************************************************)
(* C6 as amended: when a run has ended, the report has for every fitted    *)
(* degree, after the line "Range-wide statistics:", the lines labelled     *)
(* "Max error", "Mean error" and "RMS error" (lower-case e) whose values   *)
(* are the maximum, the mean and the root mean square of the error over    *)
(* the whole sample grid, to 8 decimals; the lines labelled "Max Error"    *)
(* and "Avg Error" hold the maximum and the average of the errors at the   *)
(* canonical test points, to 6 decimals; no line is labelled "Mean Error"  *)
(* or "RMS Error".                                                         *)
(***************************************************************************)
C6_RangeWideLines ==
    Ended =>
    /\ \A i \in Labelled("Range-wide statistics:") :
           LET d == out[i].degree
           IN  /\ i + 3 <= Len(out)
               /\ out[i + 1] = Line("analysis", "Max error", d, -1, <<FormatFixed(MaxOf(GridErrors(d)), 8)>>)
               /\ out[i + 2] = Line("analysis", "Mean error", d, -1, <<FormatFixed(MeanOf(GridErrors(d)), 8)>>)
               /\ out[i + 3] = Line("analysis", "RMS error", d, -1, <<FormatFixed(RmsOf(GridErrors(d)), 8)>>)
    /\ \A i \in Labelled("Max Error") :
           out[i].vals[1] = FormatFixed(MaxOf(PointErrors(out[i].degree)), 6)
    /\ \A i \in Labelled("Avg Error") :
           out[i].vals[1] = FormatFixed(MeanOf(PointErrors(out[i].degree)), 6)
    /\ Labelled("Mean Error") = {} /\ Labelled("RMS Error") = {}
    /\ pc = "done" =>
           \A d \in 0 .. MaxDegree :
               /\ Count("analysis", "Max error", d, -1) = Count("analysis", "Degree", d, -1)
               /\ Count("analysis", "Mean error", d, -1) = Count("analysis", "Degree", d, -1)
               /\ Count("analysis", "RMS error", d, -1) = Count("analysis", "Degree", d, -1)

C6_Witness ==
    /\ pc = "done"
    /\ ~InvalidConfig
    /\ \E i \in Labelled("Max error") : \E j \in Labelled("Max Error") :
           /\ out[i].degree = out[j].degree
           /\ out[i].vals[1] = 0
           /\ out[j].vals[1] > 0

(***************************************************************************)
(* C7: the export artifact of a model of degree d is a header identifying  *)
(* degree d followed by exactly d + 1 entries in ascending power order:    *)
(* for every k in 0 .. d the k-th entry is annotated with the power index  *)
(* k and holds (to 8 decimals) the coefficient of x^k, that is, the        *)
(* entries' values c_0 .. c_d are such that sum_k c_k * x^k is the         *)
(* polynomial that was fitted and analysed.  Checked on the export of a    *)
(* run that has ended.                                                     *)
(***************************************************************************)
RECURSIVE PowerSum(_, _, _)
PowerSum(x, c, k) ==
    IF k < 0 THEN Zero ELSE RatAdd(RatMul(c[k + 1], RatPow(x, k)), PowerSum(x, c, k - 1))

C7_ExportLayout ==
    Ended =>
        \A i \in Labelled("case") :
            LET d == out[i].degree
                c == FittedFor(d)
            IN  /\ out[i].sec = "export"
                /\ i + d + 4 <= Len(out)
                /\ out[i + 1] = Line("export", "// degree polynomial fit", d, -1, <<>>)
                /\ out[i + 2] = Line("export", "coeffs = []float64{", d, -1, <<>>)
                /\ \A k \in 0 .. d :
                       out[i + 3 + k] = Line("export", "// c: x^ term", d, k, <<FormatFixed(c[k + 1], 8)>>)
                /\ out[i + d + 4] = Line("export", "}", d, -1, <<>>)
                /\ \A j \in 1 .. Len(test_points) :
                       PowerSum(test_points[j], c, d) = polynomial(test_points[j], c)

C7_Witness ==
    /\ pc = "done"
    /\ ~InvalidConfig
    /\ \E i \in Labelled("case") :
           /\ out[i].degree = 2
           /\ out[i + 3].vals[1] # out[i + 5].vals[1]
           /\ out[i + 4].vals[1] # 0

(***************************************************************************)
(* C8 as claimed: whatever the order of the requested list, the per-degree *)
(* records of the report and the per-degree export artifacts are emitted   *)
(* in ascending order of degree.  Stated for the valid configurations.     *)
(***************************************************************************)
HeaderDegrees(label) ==
    LET headers == SelectSeq(out, LAMBDA l : l.label = label)
    IN  [i \in 1 .. Len(headers) |-> headers[i].degree]

IsAscending(s) == \A i \in 1 .. Len(s) : \A j \in i .. Len(s) : s[i] <= s[j]
IsPrefix(s, t) == Len(s) <= Len(t) /\ s = SubSeq(t, 1, Len(s))

C8_AscendingDegreeOrder ==
    ~InvalidConfig =>
        /\ IsAscending(HeaderDegrees("Degree"))
        /\ IsAscending(HeaderDegrees("case"))

(***************************************************************************)
(* C8 as amended: the per-degree records of the report, and the per-degree *)
(* export artifacts, are emitted in the order of the requested list: at    *)
(* every moment the degrees reported so far, and those exported so far,    *)
(* are a prefix of the list, and they are the whole list when the run ends *)
(* normally.                                                               *)
(***************************************************************************)
C8_RequestedOrder ==
    /\ IsPrefix(HeaderDegrees("Degree"), degrees)
    /\ IsPrefix(HeaderDegrees("case"), degrees)
    /\ pc = "done" => HeaderDegrees("Degree") = degrees /\ HeaderDegrees("case") = degrees

C8_Witness ==
    /\ pc = "done"
    /\ ~InvalidConfig
    /\ Len(degrees) = 2
    /\ degrees[1] > degrees[2]
    /\ HeaderDegrees("case") = degrees

(***************************************************************************)
(* C9: for every sample set and every accepted degree d, the coefficients  *)
(* returned by the fitter minimise the sum over all samples of             *)
(* (y_i - sum_k c_k x_i^k)^2.  The sum is a convex quadratic in the        *)
(* coefficients, so a vector minimises it exactly when the residual is     *)
(* orthogonal to every power of x (the gradient is 0); the formula states  *)
(* that, and that moving any one coefficient by a tenth or a hundredth in  *)
(* either direction does not lower the sum.  For n = 2 and degree 0 the    *)
(* single coefficient is the average of the two target values.             *)
(***************************************************************************)
RECURSIVE SquaredResiduals(_, _)
SquaredResiduals(c, i) ==
    IF i = 0 THEN Zero
    ELSE LET r == RatSub(y_data[i], PowerSum(x_data[i], c, Len(c) - 1))
         IN  RatAdd(RatMul(r, r), SquaredResiduals(c, i - 1))

RECURSIVE Gradient(_, _, _)
Gradient(c, k, i) ==
    IF i = 0 THEN Zero
    ELSE LET r == RatSub(y_data[i], PowerSum(x_data[i], c, Len(c) - 1))
         IN  RatAdd(RatMul(r, RatPow(x_data[i], k)), Gradient(c, k, i - 1))

Moved(c, k, delta) == [i \in 1 .. Len(c) |-> IF i = k THEN RatAdd(c[i], delta) ELSE c[i]]
Moves == {<<1, 10>>, <<-1, 10>>, <<1, 100>>, <<-1, 100>>}

DomainSpan == RatAbs(RatSub(sigmoid(Rat(b)), sigmoid(Rat(a))))
PercentOfSpan(e) == RatMul(RatDiv(e, DomainSpan), Rat(100))

C11_PercentOfDomainSpan ==
    ~InvalidConfig =>
        /\ \A i \in Labelled("Max Error") :
               out[i].vals[2] = FormatFixed(PercentOfSpan(MaxOf(PointErrors(out[i].degree))), 2)
        /\ \A i \in Labelled("Avg Error") :
               out[i].vals[2] = FormatFixed(PercentOfSpan(MeanOf(PointErrors(out[i].degree))), 2)

(***************************************************************************)
(* C12 as claimed: in a run on a valid configuration that ends normally,   *)
(* the fitter has been invoked exactly once for each requested degree (as  *)
(* many calls for a degree as the list has entries for it).                *)
(***************************************************************************)
Occurrences(s, d) == Cardinality({i \in 1 .. Len(s) : s[i] = d})

C12_FittedOncePerDegree ==
    (pc = "done" /\ ~InvalidConfig) =>
        \A d \in 0 .. MaxDegree : Occurrences(fit_calls, d) = Occurrences(degrees, d)

(***************************************************************************)
(* C12 as amended: the fitter is invoked once per requested degree in the  *)
(* analysis loop and once more per requested degree in the export loop,    *)
(* in list order, so a run that ends normally has made the calls of the    *)
(* list twice over; the two fits of a degree return the same coefficients, *)
(* so the coefficient printed at an index of a degree's report and the     *)
(* entry at that index of the degree's export artifact show the same       *)
(* value.                                                                  *)
(***************************************************************************)
C12_FittedOncePerLoop ==
    /\ IsPrefix(fit_calls, degrees \o degrees)
    /\ pc = "done" => fit_calls = degrees \o degrees
    /\ Ended =>
           \A i \in Labelled("c[] =") : \A j \in Labelled("// c: x^ term") :
               (out[i].degree = out[j].degree /\ out[i].idx = out[j].idx) => out[i].vals = out[j].vals
    /\ pc = "done" =>
           \A d \in 0 .. MaxDegree : \A k \in 0 .. d :
               Count("export", "// c: x^ term", d, k) = Count("analysis", "c[] =", d, k)

C12_Witness ==
    /\ pc = "done"
    /\ ~InvalidConfig
    /\ Len(degrees) = 2
    /\ degrees[1] # degrees[2]
    /\ fit_calls = degrees \o degrees
    /\ \E i \in Labelled("c[] =") : \E j \in Labelled("// c: x^ term") :
           /\ out[i].degree = out[j].degree
           /\ out[i].idx = out[j].idx
           /\ out[i].vals = out[j].vals
           /\ out[i].vals[1] # 0

(***************************************************************************)
(* C13: in every run the sample grid and its ground-truth values are       *)
(* computed before any fit and before any output, and stay as computed;    *)
(* for each requested degree the fit comes first (every degree header of   *)
(* the report, and then every case header of the export, has its fitter    *)
(* call before it), then the error analysis in the order degree header,    *)
(* test points, test-point summary, range-wide statistics, and only then   *)
(* the export: every case header of a degree is preceded in the output by  *)
(* that degree's complete error report.  The output only grows, so each    *)
(* kind of line is examined in the states that follow its printing.        *)
(***************************************************************************)
SampledGrid == [i \in 1 .. n_points |-> linspace(a, b, n_points)[i]]
SampledTruth == [i \in 1 .. n_points |-> sigmoid(linspace(a, b, n_points)[i])]

ReportBefore(j, d) ==
    \E i1 \in Labelled("Degree") : \E i2 \in Labelled("Test Points:") :
    \E i3 \in Labelled("Avg Error") : \E i4 \in Labelled("RMS error") :
        /\ i1 < i2 /\ i2 < i3 /\ i3 < i4 /\ i4 < j
        /\ out[i1].degree = d /\ out[i2].degree = d
        /\ out[i3].degree = d /\ out[i4].degree = d

C13_StepOrder ==
    /\ pc = "sample" => (fit_calls = <<>> /\ out = <<>>)
    /\ pc # "sample" => (x_data = SampledGrid /\ y_data = SampledTruth)
    /\ pc \in {"test_init", "go_fit", "done"} =>
           IsPrefix(HeaderDegrees("Degree") \o HeaderDegrees("case"), fit_calls)
    /\ (pc = "test" /\ ti = 1) =>
           \A i \in Labelled("Test Points:") :
               /\ out[i - 1 - (out[i].degree + 1)].label = "Coefficients:"
               /\ out[i - 3 - (out[i].degree + 1)] = Line("analysis", "Degree", out[i].degree, -1, <<>>)
    /\ pc \in {"fit", "go_banner"} =>
           \A i \in Labelled("Range-wide statistics:") :
               /\ out[i - 1].label = "Avg Error" /\ out[i - 1].degree = out[i].degree
               /\ out[i - 2].label = "Max Error" /\ out[i - 2].degree = out[i].degree
               /\ out[i - 3].label = "x=" /\ out[i - 3].degree = out[i].degree
    /\ pc \in {"go_fit", "done"} =>
           \A j \in Labelled("case") : ReportBefore(j, out[j].degree)

C13_Witness ==
    /\ pc = "go_print"
    /\ ~InvalidConfig
    /\ Len(degrees) = 2
    /\ degrees[1] # degrees[2]
    /\ di = 2
    /\ \E j \in Labelled("case") : out[j].degree = degrees[1] /\ ReportBefore(j, degrees[1])
    /\ Labelled("RMS error") # {}

(***************************************************************************)
(* C14: per-degree independence.  No step after the sampling changes       *)
(* x_data or y_data.  What is reported for a degree depends on the sample  *)
(* set and on that degree only: the coefficients in hand while a degree is *)
(* processed are a fit of that degree on the sample set, the two error     *)
(* accumulators are zero when the degree's test points start and hold the  *)
(* maximum and the sum of this degree's test-point errors when they end,   *)
(* and when the same degree is processed at two positions of the list the  *)
(* report and the export show the same values for it at both.              *)
(***************************************************************************)
ErrorsAt(coeffs) ==
    [i \in 1 .. Len(test_points) |->
        RatAbs(RatSub(sigmoid(test_points[i]), PowerSum(test_points[i], coeffs, Len(coeffs) - 1)))]

SamePlaceSameValues ==
    \A i \in 1 .. Len(out) : \A j \in 1 .. Len(out) :
        (/\ out[i].sec = out[j].sec
         /\ out[i].label = out[j].label
         /\ out[i].degree = out[j].degree
         /\ out[i].idx = out[j].idx) => out[i].vals = out[j].vals

Independent ==
    /\ pc = "coeffs" =>
           /\ Len(popt) = degree + 1
           /\ popt \in CurveFitResults(SampledGrid, SampledTruth, [k \in 1 .. degree + 1 |-> Zero])
    /\ (pc = "test" /\ ti = 1) => (max_error = Zero /\ total_error = Zero)
    /\ pc = "summary" =>
           /\ max_error = MaxOf(ErrorsAt(popt))
           /\ total_error = RatSum(ErrorsAt(popt))
    /\ Ended => SamePlaceSameValues

C14_PerDegreeIndependence ==
    /\ []Independent
    /\ [][pc # "sample" => UNCHANGED <<x_data, y_data>>]_vars

C14_Witness ==
    /\ pc = "done"
    /\ ~InvalidConfig
    /\ Len(degrees) = 2
    /\ degrees[1] = degrees[2]
    /\ Count("analysis", "Avg Error", degrees[1], -1) = 2
    /\ \E i \in Labelled("Avg Error") : out[i].vals[1] # 0
    /\ x_data = SampledGrid

(***************************************************************************)
(* C15: in the visualizer, once the dummy-data step has run, each of       *)
(* e2e_times, encryption_times, backend_times, decryption_times and        *)
(* network_sizes is non-empty for the baseline and for the optimized       *)
(* result, whatever the result files hold, so no mean taken for the        *)
(* figures is taken over an empty list (none is nan).                      *)
(***************************************************************************)
AfterDummyData == vpc \in {"e2e", "stages", "network", "done"}

AllFilled(results) ==
    /\ results.e2e_times # <<>>
    /\ results.encryption_times # <<>>
    /\ results.backend_times # <<>>
    /\ results.decryption_times # <<>>
    /\ results.network_sizes # <<>>

C15_NoEmptyList ==
    AfterDummyData =>
        /\ AllFilled(baseline)
        /\ AllFilled(optimized)
        /\ \A m \in Range(avg_e2e) \cup Range(baseline_stages) \cup Range(optimized_stages)
                      \cup Range(avg_network) : ~m.nan

(***************************************************************************)
(* C16: for every file content, parse_sigmoid_results returns the lists    *)
(* methods, mean_errors, max_errors, std_devs, times, depths and           *)
(* credit_errors all of the same length, and credit_errors[i] is the       *)
(* value of a row written for methods[i] in the credit-scoring section or, *)
(* when the section has no row for methods[i] (or there is no section),    *)
(* mean_errors[i].                                                         *)
(***************************************************************************)
SectionValuesFor(method) ==
    LET section == credit_section(sigmoid_file.lines)
    IN  IF section = <<>> THEN {}
        ELSE {float_e3(section[1][k].nums[1]) :
                 k \in {j \in 1 .. Len(section[1]) :
                           section[1][j].kind = "credit" /\ section[1][j].name = method}}

C16_CreditErrorsAligned ==
    vpc = "returned" =>
        LET r == sigmoid_results
            n == Len(r.methods)
        IN  /\ Len(r.mean_errors) = n /\ Len(r.max_errors) = n /\ Len(r.std_devs) = n
            /\ Len(r.times) = n /\ Len(r.depths) = n /\ Len(r.credit_errors) = n
            /\ \A i \in 1 .. n :
                   IF SectionValuesFor(r.methods[i]) # {}
                   THEN r.credit_errors[i] \in SectionValuesFor(r.methods[i])
                   ELSE r.credit_errors[i] = r.mean_errors[i]

(***************************************************************************)
(* C17: in the CKKS safety check every coefficient gets exactly one of the *)
(* four statuses, by its magnitude m: SAFE iff 0.01 <= m <= 1.0, OK iff    *)
(* 0.001 <= m < 0.01, TOO SMALL iff m < 0.001, TOO LARGE iff m > 1.0;      *)
(* safe_count is the number of coefficients classified SAFE so far, and    *)
(* the saved record has 0 <= safe_count <= num_features, num_features      *)
(* being the number of features (and of weights).                          *)
(***************************************************************************)
TenThousandths(q) == (q[1] * 10000) \div q[2]
Magnitude(i) == Abs(TenThousandths(coef_[i]))

C17_SafetyCheck ==
    /\ Len(statuses) = fi - 1
    /\ \A i \in 1 .. Len(statuses) :
           /\ statuses[i] \in {"SAFE", "OK", "TOO SMALL", "TOO LARGE"}
           /\ statuses[i] = "SAFE" <=> (100 <= Magnitude(i) /\ Magnitude(i) <= 10000)
           /\ statuses[i] = "OK" <=> (10 <= Magnitude(i) /\ Magnitude(i) < 100)
           /\ statuses[i] = "TOO SMALL" <=> Magnitude(i) < 10
           /\ statuses[i] = "TOO LARGE" <=> Magnitude(i) > 10000
    /\ safe_count = Cardinality({i \in 1 .. Len(statuses) : statuses[i] = "SAFE"})
    /\ tpc = "saved" =>
           /\ Len(statuses) = Len(coef_)
           /\ coefficients.safe_count = safe_count
           /\ 0 <= coefficients.safe_count
           /\ coefficients.safe_count <= coefficients.num_features
           /\ coefficients.num_features = Len(coefficients.feature_names)
           /\ coefficients.num_features = Len(coefficients.weights)

C17_Witness ==
    /\ tpc = "saved"
    /\ Len(coef_) = 2
    /\ coef_[1] = <<-1, 100>>
    /\ coef_[2] = <<10001, 10000>>
    /\ statuses = <<"SAFE", "TOO LARGE">>
    /\ coefficients.safe_count = 1
    /\ coefficients.num_features = 2

====
